---- MODULE Spec2Model ----
(***************************************************************************)
(* Model of the header-only hash table of src/hash.h: a fixed bucket array *)
(* of singly linked chains of intrusive entries                            *)
(*      [ next ][ key ][ padding ][ value ][ padding ]                     *)
(* drawn from a pre-allocated arena while slots remain and from the heap   *)
(* afterwards.  Memory is a byte array, pointers are stored little-endian  *)
(* in it, and malloc/free are modelled with a block table.                 *)
(***************************************************************************)
EXTENDS Integers, Sequences, FiniteSets, TLC

(* ------------------------------ bounds --------------------------------- *)

\* Keys handed to the table are the integers 1..MaxKey, as key_size bytes.
MaxKey == 2
\* Values handed to hash_insert are the integers 1..MaxVal, as value_size bytes.
MaxVal == 2
\* hash_init is called with nbuckets in 0..MaxBuckets.
MaxBuckets == 2
\* hash_init is called with expected_entries in 0..MaxExpected.
MaxExpected == 2
\* Number of bytes of addressable memory.
MemSize == 128
\* Width of size_t in the model (arithmetic on sizes is modulo 2^SizeBits).
SizeBits == 16

\* The layout of an entry is computed for key and value sizes within
\* MaxLayoutSize of 0 and within MaxLayoutSize of the largest size_t.
MaxLayoutSize == 24

\* entry_alloc is applied at most MaxSlots times when arena slots are handed
\* out on their own.
MaxSlots == 3

\* <<key_size, value_size, value_free supplied>> arguments tried by hash_init.
InitArgs == {<<4, 8, TRUE>>, <<9, 2, FALSE>>}

(* ------------------------- platform and memory ------------------------- *)

NULL == 0
\* alignof(max_align_t)
HASH_ARENA_ALIGN == 16
\* sizeof(s_hash_entry): one pointer
SizeofEntry == 8
\* sizeof(s_hash_entry*)
SizeofPtr == 8
\* Content of memory that has not been written since it was allocated.
Indeterminate == -1

SizeMod == 2 ^ SizeBits
Mem == 0 .. (MemSize - 1)

SetMin(S) == CHOOSE x \in S : \A y \in S : x <= y
SetMax(S) == CHOOSE x \in S : \A y \in S : x >= y

\* Byte j (1 = least significant) of the non-negative integer n. The model's
\* integers are below 2^31, so every byte past the fourth is 0.
ByteOf(n, j) == IF j > 4 THEN 0 ELSE (n \div (256 ^ (j - 1))) % 256

\* The object representation (little-endian) of integer n in size bytes.
EncodeLE(n, size) == [j \in 1 .. size |-> ByteOf(n, j)]

RECURSIVE DecodeFrom(_, _)
DecodeFrom(bytes, j) ==
    IF j > Len(bytes) THEN 0 ELSE bytes[j] + 256 * DecodeFrom(bytes, j + 1)

\* The integer whose little-endian object representation is bytes.
DecodeLE(bytes) == DecodeFrom(bytes, 1)

ReadBytes(m, a, n) == [j \in 1 .. n |-> m[a + j - 1]]

\* memcpy(a, bytes, Len(bytes))
WriteBytes(m, a, bytes) ==
    [x \in (a .. (a + Len(bytes) - 1)) \cap DOMAIN m |-> bytes[x - a + 1]] @@ m

\* memset(a, c, n)
FillBytes(m, a, n, c) ==
    [x \in (a .. (a + n - 1)) \cap DOMAIN m |-> c] @@ m

\* The pointer stored in the SizeofPtr bytes at address a, least significant
\* byte first: DecodeLE(ReadBytes(m, a, SizeofPtr)) written out.
ReadPtr(m, a) ==
    m[a] + 256 * (m[a + 1] + 256 * (m[a + 2] + 256 * (m[a + 3]
         + 256 * (m[a + 4] + 256 * (m[a + 5] + 256 * (m[a + 6]
         + 256 * m[a + 7]))))))
WritePtr(m, a, p) == WriteBytes(m, a, EncodeLE(p, SizeofPtr))

\* The bytes a request of n bytes keeps to itself: malloc(0), where it does
\* not return NULL, returns a pointer distinct from every other live one.
Footprint(n) == IF n = 0 THEN 1 ELSE n

\* Allocated blocks are pairs <<base, size>>.
Overlaps(a, n, b) ==
    a < b[1] + Footprint(b[2]) /\ b[1] < a + Footprint(n)

FreeAddrs(blks, n) ==
    {a \in {HASH_ARENA_ALIGN * i : i \in 1 .. (MemSize \div HASH_ARENA_ALIGN)} :
                 /\ a + n <= MemSize
                 /\ \A b \in blks : ~Overlaps(a, n, b)}

\* malloc(n): NULL when the allocator fails (ok = FALSE) or nothing fits;
\* otherwise the lowest (or, for a top-down allocator, highest) free address.
MallocAddr(blks, n, td, ok) ==
    LET c == FreeAddrs(blks, n)
    IN  IF ~ok \/ c = {} THEN NULL
        ELSE IF td THEN SetMax(c) ELSE SetMin(c)

\* A machine state s is a record [ht, mem, blocks, log].
\* free(p): a no-op on NULL; otherwise the block is released, its content
\* becomes indeterminate and the release is logged.
Free(s, p) ==
    IF p = NULL THEN s
    ELSE LET hit == {b \in s.blocks : b[1] = p}
             n   == IF hit = {} THEN 0 ELSE (CHOOSE b \in hit : TRUE)[2]
         IN  [s EXCEPT !.blocks = @ \ hit,
                       !.mem = FillBytes(@, p, n, Indeterminate),
                       !.log = Append(@, <<"free", p>>)]

(* ------------------------------ layout --------------------------------- *)

align_up(x) ==
    (((x + HASH_ARENA_ALIGN - 1) % SizeMod) \div HASH_ARENA_ALIGN)
        * HASH_ARENA_ALIGN

compute_entry_value_offset(key_size) ==
    align_up((SizeofEntry + key_size) % SizeMod)

compute_entry_size(key_size, value_size) ==
    (compute_entry_value_offset(key_size) + value_size) % SizeMod

compute_entry_stride(key_size, value_size) ==
    align_up(compute_entry_size(key_size, value_size))

entry_key(e) == e + SizeofEntry

entry_value(h, e) == e + h.value_offset

(* ------------------------------- state --------------------------------- *)

VARIABLES
    ht,        \* the s_hash_table structure of the caller
    mem,       \* memory: address -> byte (or Indeterminate)
    blocks,    \* blocks currently allocated by malloc/calloc: <<base, size>>
    log,       \* releases, value-destructor calls and teardown reads so far
    top_down,  \* placement policy of the platform's allocator
    phase,     \* "uninit", "live" (hash_init returned 1), "failed", "freed",
               \* "refreed" (hash_free called again after hash_free),
               \* "failed_freed" (hash_free returned after a failed
               \* hash_init), "trapped" (that hash_free was stopped at a
               \* read of released memory)
    ret,       \* the last call and what it returned
    cfg,       \* the arguments hash_init was called with
    hist,      \* the entries created so far, in creation order
    ref        \* a reference first-write-wins map: key -> value

vars == <<ht, mem, blocks, log, top_down, phase, ret, cfg, hist, ref>>

\* memset(ht, 0, sizeof(s_hash_table)); also a zero-initialised structure.
ZeroTable ==
    [buckets |-> NULL, nbuckets |-> 0, key_size |-> 0, value_size |-> 0,
     value_offset |-> 0, entry_size |-> 0, hash |-> FALSE, equals |-> FALSE,
     value_free |-> FALSE, size |-> 0, arena |-> NULL, arena_capacity |-> 0,
     arena_used |-> 0, arena_entry_stride |-> 0]

\* A structure the caller has not initialised: fields left over from
\* whatever the storage held before.
StaleTable ==
    [buckets |-> 48, nbuckets |-> 3, key_size |-> 1, value_size |-> 1,
     value_offset |-> 5, entry_size |-> 7, hash |-> TRUE, equals |-> TRUE,
     value_free |-> TRUE, size |-> 2, arena |-> 80, arena_capacity |-> 1,
     arena_used |-> 1, arena_entry_stride |-> 16]

\* The machine state the operations below transform.
Machine == [ht |-> ht, mem |-> mem, blocks |-> blocks, log |-> log]

(* ----------------- caller-supplied functions and inputs ----------------- *)

\* f_hash_func of the caller: the key bytes read as an unsigned integer.
hash(key) == DecodeLE(key)

\* f_hash_key_cmp of the caller: byte-wise equality of two keys.
equals(key1, key2) == key1 = key2

Keys == 1 .. MaxKey
Values == 1 .. MaxVal

(* ------------------------------ allocator ------------------------------ *)

\* entry_alloc with the arena test off by one (<= for <).
entry_alloc_off_by_one(s, td, ok) ==
    IF s.ht.arena # NULL /\ s.ht.arena_used <= s.ht.arena_capacity
    THEN [s   |-> [s EXCEPT !.ht.arena_used = (@ + 1) % SizeMod],
          e   |-> s.ht.arena
                    + ((s.ht.arena_used * s.ht.arena_entry_stride) % SizeMod),
          src |-> "arena"]
    ELSE LET e == MallocAddr(s.blocks, s.ht.entry_size, td, ok)
         IN  IF e = NULL
             THEN [s |-> s, e |-> NULL, src |-> "none"]
             ELSE [s   |-> [s EXCEPT
                              !.blocks = @ \cup {<<e, s.ht.entry_size>>},
                              !.mem = FillBytes(@, e, s.ht.entry_size, 0)],
                   e   |-> e,
                   src |-> "heap"]

\* entry_alloc without the memset of the heap path.
entry_alloc_no_memset(s, td, ok) ==
    IF s.ht.arena # NULL /\ s.ht.arena_used < s.ht.arena_capacity
    THEN [s   |-> [s EXCEPT !.ht.arena_used = (@ + 1) % SizeMod],
          e   |-> s.ht.arena
                    + ((s.ht.arena_used * s.ht.arena_entry_stride) % SizeMod),
          src |-> "arena"]
    ELSE LET e == MallocAddr(s.blocks, s.ht.entry_size, td, ok)
         IN  IF e = NULL
             THEN [s |-> s, e |-> NULL, src |-> "none"]
             ELSE [s   |-> [s EXCEPT
                              !.blocks = @ \cup {<<e, s.ht.entry_size>>}],
                   e   |-> e,
                   src |-> "heap"]

\* entry_alloc that forgets the arena once it is exhausted (ht->arena = NULL).
entry_alloc_drop_arena(s, td, ok) ==
    IF s.ht.arena # NULL /\ s.ht.arena_used < s.ht.arena_capacity
    THEN [s   |-> [s EXCEPT !.ht.arena_used = (@ + 1) % SizeMod],
          e   |-> s.ht.arena
                    + ((s.ht.arena_used * s.ht.arena_entry_stride) % SizeMod),
          src |-> "arena"]
    ELSE LET e == MallocAddr(s.blocks, s.ht.entry_size, td, ok)
         IN  IF e = NULL
             THEN [s |-> [s EXCEPT !.ht.arena = NULL], e |-> NULL,
                   src |-> "none"]
             ELSE [s   |-> [s EXCEPT
                              !.ht.arena = NULL,
                              !.blocks = @ \cup {<<e, s.ht.entry_size>>},
                              !.mem = FillBytes(@, e, s.ht.entry_size, 0)],
                   e   |-> e,
                   src |-> "heap"]

\* entry_alloc without the ht->arena_used++ of the arena path.
entry_alloc_no_advance(s, td, ok) ==
    IF s.ht.arena # NULL /\ s.ht.arena_used < s.ht.arena_capacity
    THEN [s   |-> s,
          e   |-> s.ht.arena
                    + ((s.ht.arena_used * s.ht.arena_entry_stride) % SizeMod),
          src |-> "arena"]
    ELSE LET e == MallocAddr(s.blocks, s.ht.entry_size, td, ok)
         IN  IF e = NULL
             THEN [s |-> s, e |-> NULL, src |-> "none"]
             ELSE [s   |-> [s EXCEPT
                              !.blocks = @ \cup {<<e, s.ht.entry_size>>},
                              !.mem = FillBytes(@, e, s.ht.entry_size, 0)],
                   e   |-> e,
                   src |-> "heap"]

\* entry_alloc that gives up when the heap cannot supply an entry, before it
\* looks at the arena.
entry_alloc_needs_heap(s, td, ok) ==
    LET e == MallocAddr(s.blocks, s.ht.entry_size, td, ok)
    IN  IF e = NULL THEN [s |-> s, e |-> NULL, src |-> "none"]
        ELSE IF s.ht.arena # NULL /\ s.ht.arena_used < s.ht.arena_capacity
        THEN [s   |-> [s EXCEPT !.ht.arena_used = (@ + 1) % SizeMod],
              e   |-> s.ht.arena
                        + ((s.ht.arena_used * s.ht.arena_entry_stride) % SizeMod),
              src |-> "arena"]
        ELSE [s   |-> [s EXCEPT
                         !.blocks = @ \cup {<<e, s.ht.entry_size>>},
                         !.mem = FillBytes(@, e, s.ht.entry_size, 0)],
              e   |-> e,
              src |-> "heap"]

\* Result: the machine state after the call, the entry (NULL on failure)
\* and the branch taken ("arena", "heap" or "none").
entry_alloc(s, td, ok) ==
    IF s.ht.arena # NULL /\ s.ht.arena_used < s.ht.arena_capacity
    THEN [s   |-> [s EXCEPT !.ht.arena_used = (@ + 1) % SizeMod],
          e   |-> s.ht.arena
                    + ((s.ht.arena_used * s.ht.arena_entry_stride) % SizeMod),
          src |-> "arena"]
    ELSE LET e == MallocAddr(s.blocks, s.ht.entry_size, td, ok)
         IN  IF e = NULL
             THEN [s |-> s, e |-> NULL, src |-> "none"]
             ELSE [s   |-> [s EXCEPT
                              !.blocks = @ \cup {<<e, s.ht.entry_size>>},
                              !.mem = FillBytes(@, e, s.ht.entry_size, 0)],
                   e   |-> e,
                   src |-> "heap"]

\* entry_is_in_arena without the upper end of the range.
entry_is_in_arena_no_upper(h, e) ==
    IF h.arena = NULL THEN FALSE ELSE e >= h.arena

entry_is_in_arena(h, e) ==
    IF h.arena = NULL THEN FALSE
    ELSE LET block == (h.arena_capacity * h.arena_entry_stride) % SizeMod
         IN  e >= h.arena /\ e < h.arena + block

(* ------------------------------ hash_init ------------------------------ *)

\* hash_init without the free(ht->buckets) of the arena failure path.
hash_init_leak(s, key_size, value_size, nbuckets, expected_entries, value_free, td, ok1, ok2) ==
    IF nbuckets < 1 THEN [s |-> s, rc |-> 0]
    ELSE
    LET bsz == nbuckets * SizeofPtr
        b   == MallocAddr(s.blocks, bsz, td, ok1)
    IN
    IF b = NULL THEN [s |-> [s EXCEPT !.ht.buckets = NULL], rc |-> 0]
    ELSE
    LET h1 == [buckets |-> b, nbuckets |-> nbuckets,
               key_size |-> key_size, value_size |-> value_size,
               value_offset |-> compute_entry_value_offset(key_size),
               entry_size |-> compute_entry_size(key_size, value_size),
               hash |-> TRUE, equals |-> TRUE, value_free |-> value_free,
               size |-> 0, arena |-> NULL, arena_capacity |-> 0,
               arena_used |-> 0, arena_entry_stride |-> 0]
        s1 == [s EXCEPT !.ht = h1,
                        !.blocks = @ \cup {<<b, bsz>>},
                        !.mem = FillBytes(@, b, bsz, 0)]
    IN
    IF expected_entries > 0
    THEN LET stride == compute_entry_stride(key_size, value_size)
             total  == (stride * expected_entries) % SizeMod
             arena  == MallocAddr(s1.blocks, total, td, ok2)
             s2     == [s1 EXCEPT !.ht.arena_entry_stride = stride]
         IN  IF arena = NULL
             THEN [s |-> s2, rc |-> 0]
             ELSE [s  |-> [s2 EXCEPT
                             !.ht.arena = arena,
                             !.ht.arena_capacity = expected_entries,
                             !.ht.arena_used = 0,
                             !.blocks = @ \cup {<<arena, total>>},
                             !.mem = FillBytes(@, arena, total, 0)],
                   rc |-> 1]
    ELSE [s |-> s1, rc |-> 1]

\* hash_init that clears the structure before it rejects nbuckets < 1.
hash_init_reset(s, key_size, value_size, nbuckets, expected_entries, value_free, td, ok1, ok2) ==
    IF nbuckets < 1 THEN [s |-> [s EXCEPT !.ht = ZeroTable], rc |-> 0]
    ELSE
    LET bsz == nbuckets * SizeofPtr
        b   == MallocAddr(s.blocks, bsz, td, ok1)
    IN
    IF b = NULL THEN [s |-> [s EXCEPT !.ht.buckets = NULL], rc |-> 0]
    ELSE
    LET h1 == [buckets |-> b, nbuckets |-> nbuckets,
               key_size |-> key_size, value_size |-> value_size,
               value_offset |-> compute_entry_value_offset(key_size),
               entry_size |-> compute_entry_size(key_size, value_size),
               hash |-> TRUE, equals |-> TRUE, value_free |-> value_free,
               size |-> 0, arena |-> NULL, arena_capacity |-> 0,
               arena_used |-> 0, arena_entry_stride |-> 0]
        s1 == [s EXCEPT !.ht = h1,
                        !.blocks = @ \cup {<<b, bsz>>},
                        !.mem = FillBytes(@, b, bsz, 0)]
    IN
    IF expected_entries > 0
    THEN LET stride == compute_entry_stride(key_size, value_size)
             total  == (stride * expected_entries) % SizeMod
             arena  == MallocAddr(s1.blocks, total, td, ok2)
             s2     == [s1 EXCEPT !.ht.arena_entry_stride = stride]
         IN  IF arena = NULL
             THEN [s |-> Free(s2, s2.ht.buckets), rc |-> 0]
             ELSE [s  |-> [s2 EXCEPT
                             !.ht.arena = arena,
                             !.ht.arena_capacity = expected_entries,
                             !.ht.arena_used = 0,
                             !.blocks = @ \cup {<<arena, total>>},
                             !.mem = FillBytes(@, arena, total, 0)],
                   rc |-> 1]
    ELSE [s |-> s1, rc |-> 1]

\* Result: [s |-> machine state after the call, rc |-> 0 ERROR / 1 OK].
\* ok1 and ok2 say whether calloc and malloc can supply memory.
hash_init(s, key_size, value_size, nbuckets, expected_entries, value_free, td, ok1, ok2) ==
    IF nbuckets < 1 THEN [s |-> s, rc |-> 0]
    ELSE
    LET bsz == nbuckets * SizeofPtr
        b   == MallocAddr(s.blocks, bsz, td, ok1)
    IN
    IF b = NULL THEN [s |-> [s EXCEPT !.ht.buckets = NULL], rc |-> 0]
    ELSE
    LET h1 == [buckets |-> b, nbuckets |-> nbuckets,
               key_size |-> key_size, value_size |-> value_size,
               value_offset |-> compute_entry_value_offset(key_size),
               entry_size |-> compute_entry_size(key_size, value_size),
               hash |-> TRUE, equals |-> TRUE, value_free |-> value_free,
               size |-> 0, arena |-> NULL, arena_capacity |-> 0,
               arena_used |-> 0, arena_entry_stride |-> 0]
        s1 == [s EXCEPT !.ht = h1,
                        !.blocks = @ \cup {<<b, bsz>>},
                        !.mem = FillBytes(@, b, bsz, 0)]
    IN
    IF expected_entries > 0
    THEN LET stride == compute_entry_stride(key_size, value_size)
             total  == (stride * expected_entries) % SizeMod
             arena  == MallocAddr(s1.blocks, total, td, ok2)
             s2     == [s1 EXCEPT !.ht.arena_entry_stride = stride]
         IN  IF arena = NULL
             THEN [s |-> Free(s2, s2.ht.buckets), rc |-> 0]
             ELSE [s  |-> [s2 EXCEPT
                             !.ht.arena = arena,
                             !.ht.arena_capacity = expected_entries,
                             !.ht.arena_used = 0,
                             !.blocks = @ \cup {<<arena, total>>},
                             !.mem = FillBytes(@, arena, total, 0)],
                   rc |-> 1]
    ELSE [s |-> s1, rc |-> 1]

(* ------------------------------ hash_free ------------------------------ *)

\* A read, during teardown, of the pointer stored at address a.
Load(s, a) == [s EXCEPT !.log = Append(@, <<"load", a>>)]

RECURSIVE free_chain_next_after_free(_, _, _)
\* free_chain that fetches e->next after it has released e.
free_chain_next_after_free(h, s, e) ==
    IF e = NULL THEN s
    ELSE LET next == ReadPtr(s.mem, e)
             s1   == IF h.value_free
                     THEN [s EXCEPT !.log =
                             Append(@, <<"value_free", entry_value(h, e)>>)]
                     ELSE s
             s2   == IF ~entry_is_in_arena(h, e) THEN Free(s1, e) ELSE s1
         IN  free_chain_next_after_free(h, Load(s2, e), next)

RECURSIVE free_chain_heap_dtor_only(_, _, _)
\* free_chain with the value-destructor call moved under the heap test.
free_chain_heap_dtor_only(h, s, e) ==
    IF e = NULL THEN s
    ELSE LET next == ReadPtr(s.mem, e)
             s0   == Load(s, e)
             s1   == IF h.value_free /\ ~entry_is_in_arena(h, e)
                     THEN [s0 EXCEPT !.log =
                             Append(@, <<"value_free", entry_value(h, e)>>)]
                     ELSE s0
             s2   == IF ~entry_is_in_arena(h, e) THEN Free(s1, e) ELSE s1
         IN  free_chain_heap_dtor_only(h, s2, next)

RECURSIVE free_chain(_, _, _)
\* The inner loop of hash_free over one chain, starting at entry e.
free_chain(h, s, e) ==
    IF e = NULL THEN s
    ELSE LET next == ReadPtr(s.mem, e)
             s0   == Load(s, e)
             s1   == IF h.value_free
                     THEN [s0 EXCEPT !.log =
                             Append(@, <<"value_free", entry_value(h, e)>>)]
                     ELSE s0
             s2   == IF ~entry_is_in_arena(h, e) THEN Free(s1, e) ELSE s1
         IN  free_chain(h, s2, next)

RECURSIVE free_buckets(_, _, _)
\* The outer loop of hash_free, from bucket i on.
free_buckets(h, s, i) ==
    IF i >= h.nbuckets THEN s
    ELSE free_buckets(h,
            free_chain(h, Load(s, h.buckets + i * SizeofPtr),
                       ReadPtr(s.mem, h.buckets + i * SizeofPtr)),
            i + 1)

\* hash_free without the final memset of the structure.
hash_free_no_reset(s) ==
    LET h  == s.ht
        s1 == free_buckets(h, s, 0)
        s2 == IF h.arena # NULL THEN Free(s1, h.arena) ELSE s1
    IN  Free(s2, h.buckets)

hash_free(s) ==
    LET h  == s.ht
        s1 == free_buckets(h, s, 0)
        s2 == IF h.arena # NULL THEN Free(s1, h.arena) ELSE s1
        s3 == Free(s2, h.buckets)
    IN  [s3 EXCEPT !.ht = ZeroTable]

(* ---------------------- lookup, insert, get-or-create ------------------ *)

bucket_index(h, key) == hash(key) % h.nbuckets

RECURSIVE chain_find(_, _, _, _)
\* The chain scan shared by hash_get, hash_insert and hash_get_or_create:
\* the first entry from e on whose key equals key, or NULL.
chain_find(m, h, e, key) ==
    IF e = NULL THEN NULL
    ELSE IF equals(ReadBytes(m, entry_key(e), h.key_size), key) THEN e
    ELSE chain_find(m, h, ReadPtr(m, e), key)

\* hash_get that trusts the bucket index: the head of the bucket, unchecked.
hash_get_no_compare(s, key) ==
    LET idx == bucket_index(s.ht, key)
        e   == ReadPtr(s.mem, s.ht.buckets + idx * SizeofPtr)
    IN  IF e = NULL THEN NULL ELSE entry_value(s.ht, e)

\* hash_get that, once it has found the key in the chain, returns the value
\* region of the entry at the head of that chain.
hash_get_from_head(s, key) ==
    LET idx  == bucket_index(s.ht, key)
        head == ReadPtr(s.mem, s.ht.buckets + idx * SizeofPtr)
        e    == chain_find(s.mem, s.ht, head, key)
    IN  IF e = NULL THEN NULL ELSE entry_value(s.ht, head)

\* Result: the address of the value region, or NULL.
hash_get(s, key) ==
    LET idx == bucket_index(s.ht, key)
        e   == chain_find(s.mem, s.ht,
                          ReadPtr(s.mem, s.ht.buckets + idx * SizeofPtr), key)
    IN  IF e = NULL THEN NULL ELSE entry_value(s.ht, e)

\* hash_insert with one slip, used to test the claims:
\*   "no_value"  the memcpy of the value is missing;
\*   "head_only" the duplicate check looks at the chain head only;
\*   "no_count"  ht->size is not incremented;
\*   "early_count" ht->size is incremented before the allocation is checked.
\*   "no_link"   e->next is not set to the previous head of the chain.
\*   "alloc_first" entry_alloc is called before the duplicate check.
hash_insert_bug(s, key, value, td, ok, bug) ==
    LET idx  == bucket_index(s.ht, key)
        slot == s.ht.buckets + idx * SizeofPtr
        head == ReadPtr(s.mem, slot)
        dup  == IF bug = "head_only"
                THEN IF head # NULL
                        /\ equals(ReadBytes(s.mem, entry_key(head),
                                            s.ht.key_size), key)
                     THEN head ELSE NULL
                ELSE chain_find(s.mem, s.ht, head, key)
        a    == entry_alloc(s, td, ok)
        e    == a.e
        m1   == WriteBytes(a.s.mem, entry_key(e), key)
        m2   == IF bug = "no_value" THEN m1
                ELSE WriteBytes(m1, entry_value(a.s.ht, e), value)
        m3   == IF bug = "no_link" THEN m2
                ELSE WritePtr(m2, e, ReadPtr(m2, slot))
        m4   == WritePtr(m3, slot, e)
        inc  == IF bug = "no_count" THEN 0 ELSE 1
    IN  IF dup # NULL
        THEN [s |-> IF bug = "alloc_first" THEN a.s ELSE s,
              rc |-> -1, e |-> NULL, src |-> "none"]
        ELSE IF e = NULL
        THEN [s |-> IF bug = "early_count"
                    THEN [a.s EXCEPT !.ht.size = (@ + 1) % SizeMod] ELSE a.s,
              rc |-> 0, e |-> NULL, src |-> "none"]
        ELSE [s   |-> [a.s EXCEPT !.mem = m4,
                                  !.ht.size = (@ + inc) % SizeMod],
              rc  |-> 1, e |-> e, src |-> a.src]

hash_insert_no_value(s, key, value, td, ok) ==
    hash_insert_bug(s, key, value, td, ok, "no_value")

hash_insert_head_only(s, key, value, td, ok) ==
    hash_insert_bug(s, key, value, td, ok, "head_only")

hash_insert_no_count(s, key, value, td, ok) ==
    hash_insert_bug(s, key, value, td, ok, "no_count")

hash_insert_early_count(s, key, value, td, ok) ==
    hash_insert_bug(s, key, value, td, ok, "early_count")

hash_insert_no_link(s, key, value, td, ok) ==
    hash_insert_bug(s, key, value, td, ok, "no_link")

hash_insert_alloc_first(s, key, value, td, ok) ==
    hash_insert_bug(s, key, value, td, ok, "alloc_first")

\* Result: [s, rc |-> -1 DUPLICATE / 0 ERROR / 1 OK, e |-> the new entry,
\* src |-> the branch entry_alloc took].
hash_insert(s, key, value, td, ok) ==
    LET idx  == bucket_index(s.ht, key)
        slot == s.ht.buckets + idx * SizeofPtr
        dup  == chain_find(s.mem, s.ht, ReadPtr(s.mem, slot), key)
        a    == entry_alloc(s, td, ok)
        e    == a.e
        m1   == WriteBytes(a.s.mem, entry_key(e), key)
        m2   == WriteBytes(m1, entry_value(a.s.ht, e), value)
        m3   == WritePtr(m2, e, ReadPtr(m2, slot))
        m4   == WritePtr(m3, slot, e)
    IN  IF dup # NULL THEN [s |-> s, rc |-> -1, e |-> NULL, src |-> "none"]
        ELSE IF e = NULL THEN [s |-> a.s, rc |-> 0, e |-> NULL, src |-> "none"]
        ELSE [s   |-> [a.s EXCEPT !.mem = m4,
                                  !.ht.size = (@ + 1) % SizeMod],
              rc  |-> 1, e |-> e, src |-> a.src]

\* hash_get_or_create that zeroes the value region of an entry it found.
hash_get_or_create_rezero(s, key, td, ok) ==
    LET idx   == bucket_index(s.ht, key)
        slot  == s.ht.buckets + idx * SizeofPtr
        found == chain_find(s.mem, s.ht, ReadPtr(s.mem, slot), key)
        a     == entry_alloc(s, td, ok)
        e     == a.e
        m1    == WriteBytes(a.s.mem, entry_key(e), key)
        m2    == FillBytes(m1, entry_value(a.s.ht, e), a.s.ht.value_size, 0)
        m3    == WritePtr(m2, e, ReadPtr(m2, slot))
        m4    == WritePtr(m3, slot, e)
    IN  IF found # NULL
        THEN [s |-> [s EXCEPT !.mem = FillBytes(@, entry_value(s.ht, found),
                                                s.ht.value_size, 0)],
              ptr |-> entry_value(s.ht, found), e |-> NULL, src |-> "none"]
        ELSE IF e = NULL
        THEN [s |-> a.s, ptr |-> NULL, e |-> NULL, src |-> "none"]
        ELSE [s   |-> [a.s EXCEPT !.mem = m4,
                                  !.ht.size = (@ + 1) % SizeMod],
              ptr |-> entry_value(a.s.ht, e), e |-> e, src |-> a.src]

\* hash_get_or_create without the ht->size++ of the creating path.
hash_get_or_create_no_count(s, key, td, ok) ==
    LET idx   == bucket_index(s.ht, key)
        slot  == s.ht.buckets + idx * SizeofPtr
        found == chain_find(s.mem, s.ht, ReadPtr(s.mem, slot), key)
        a     == entry_alloc(s, td, ok)
        e     == a.e
        m1    == WriteBytes(a.s.mem, entry_key(e), key)
        m2    == FillBytes(m1, entry_value(a.s.ht, e), a.s.ht.value_size, 0)
        m3    == WritePtr(m2, e, ReadPtr(m2, slot))
        m4    == WritePtr(m3, slot, e)
    IN  IF found # NULL
        THEN [s |-> s, ptr |-> entry_value(s.ht, found), e |-> NULL,
              src |-> "none"]
        ELSE IF e = NULL
        THEN [s |-> a.s, ptr |-> NULL, e |-> NULL, src |-> "none"]
        ELSE [s   |-> [a.s EXCEPT !.mem = m4],
              ptr |-> entry_value(a.s.ht, e), e |-> e, src |-> a.src]

\* hash_get_or_create without the memcpy of the key into the new entry.
hash_get_or_create_no_key(s, key, td, ok) ==
    LET idx   == bucket_index(s.ht, key)
        slot  == s.ht.buckets + idx * SizeofPtr
        found == chain_find(s.mem, s.ht, ReadPtr(s.mem, slot), key)
        a     == entry_alloc(s, td, ok)
        e     == a.e
        m1    == a.s.mem
        m2    == FillBytes(m1, entry_value(a.s.ht, e), a.s.ht.value_size, 0)
        m3    == WritePtr(m2, e, ReadPtr(m2, slot))
        m4    == WritePtr(m3, slot, e)
    IN  IF found # NULL
        THEN [s |-> s, ptr |-> entry_value(s.ht, found), e |-> NULL,
              src |-> "none"]
        ELSE IF e = NULL
        THEN [s |-> a.s, ptr |-> NULL, e |-> NULL, src |-> "none"]
        ELSE [s   |-> [a.s EXCEPT !.mem = m4,
                                  !.ht.size = (@ + 1) % SizeMod],
              ptr |-> entry_value(a.s.ht, e), e |-> e, src |-> a.src]

\* hash_get_or_create that scans the chain of the key's bucket but links the
\* entry it creates into bucket 0.
hash_get_or_create_bucket0(s, key, td, ok) ==
    LET idx   == bucket_index(s.ht, key)
        slot  == s.ht.buckets + idx * SizeofPtr
        first == s.ht.buckets
        found == chain_find(s.mem, s.ht, ReadPtr(s.mem, slot), key)
        a     == entry_alloc(s, td, ok)
        e     == a.e
        m1    == WriteBytes(a.s.mem, entry_key(e), key)
        m2    == FillBytes(m1, entry_value(a.s.ht, e), a.s.ht.value_size, 0)
        m3    == WritePtr(m2, e, ReadPtr(m2, first))
        m4    == WritePtr(m3, first, e)
    IN  IF found # NULL
        THEN [s |-> s, ptr |-> entry_value(s.ht, found), e |-> NULL,
              src |-> "none"]
        ELSE IF e = NULL
        THEN [s |-> a.s, ptr |-> NULL, e |-> NULL, src |-> "none"]
        ELSE [s   |-> [a.s EXCEPT !.mem = m4,
                                  !.ht.size = (@ + 1) % SizeMod],
              ptr |-> entry_value(a.s.ht, e), e |-> e, src |-> a.src]

\* Result: [s, ptr |-> the value region or NULL, e |-> the entry created
\* (NULL if none was), src |-> the branch entry_alloc took].
hash_get_or_create(s, key, td, ok) ==
    LET idx   == bucket_index(s.ht, key)
        slot  == s.ht.buckets + idx * SizeofPtr
        found == chain_find(s.mem, s.ht, ReadPtr(s.mem, slot), key)
        a     == entry_alloc(s, td, ok)
        e     == a.e
        m1    == WriteBytes(a.s.mem, entry_key(e), key)
        m2    == FillBytes(m1, entry_value(a.s.ht, e), a.s.ht.value_size, 0)
        m3    == WritePtr(m2, e, ReadPtr(m2, slot))
        m4    == WritePtr(m3, slot, e)
    IN  IF found # NULL
        THEN [s |-> s, ptr |-> entry_value(s.ht, found), e |-> NULL,
              src |-> "none"]
        ELSE IF e = NULL
        THEN [s |-> a.s, ptr |-> NULL, e |-> NULL, src |-> "none"]
        ELSE [s   |-> [a.s EXCEPT !.mem = m4,
                                  !.ht.size = (@ + 1) % SizeMod],
              ptr |-> entry_value(a.s.ht, e), e |-> e, src |-> a.src]

\* A lookup that creates the entry it misses, as hash_get_or_create does.
hash_get_call_creating(s, key) ==
    LET r == hash_get_or_create(s, key, FALSE, TRUE)
    IN  [s |-> r.s, ptr |-> r.ptr]

\* The call hash_get(ht, key) as a step of the machine: the state it leaves
\* (the function body holds no store through ht, its buckets or its entries)
\* and the pointer it returns.
hash_get_call(s, key) == [s |-> s, ptr |-> hash_get(s, key)]

(* ------------------------------ actions -------------------------------- *)

NoCall == [op |-> "none", key |-> 0, value |-> 0, rc |-> 0, ptr |-> NULL,
           created |-> FALSE]

NoArgs == [key_size |-> 0, value_size |-> 0, nbuckets |-> 0,
           expected_entries |-> 0, value_free |-> FALSE]

\* The reference map after a call that stores v under k unless k is present
\* or the call reported that it could not allocate (failed).
RefPut(k, v, failed) ==
    IF k \in DOMAIN ref \/ failed THEN ref ELSE (k :> v) @@ ref

Init ==
    /\ ht \in {ZeroTable, StaleTable}
    /\ mem = [a \in Mem |-> Indeterminate]
    /\ blocks = {}
    /\ log = <<>>
    /\ top_down \in BOOLEAN
    /\ phase = "uninit"
    /\ ret = NoCall
    /\ cfg = NoArgs
    /\ hist = <<>>
    /\ ref = <<>>

Install(s) ==
    /\ ht' = s.ht
    /\ mem' = s.mem
    /\ blocks' = s.blocks
    /\ log' = s.log

HashInit ==
    /\ phase = "uninit"
    /\ \E args \in InitArgs,
          nbuckets \in 0 .. MaxBuckets, expected_entries \in 0 .. MaxExpected,
          ok1 \in BOOLEAN, ok2 \in BOOLEAN :
          \E r \in {hash_init(Machine, args[1], args[2], nbuckets,
                             expected_entries, args[3], top_down, ok1, ok2)} :
              /\ Install(r.s)
              /\ phase' = IF r.rc = 1 THEN "live" ELSE "failed"
              /\ ret' = [NoCall EXCEPT !.op = "init", !.rc = r.rc]
              /\ cfg' = [key_size |-> args[1], value_size |-> args[2],
                         nbuckets |-> nbuckets,
                         expected_entries |-> expected_entries,
                         value_free |-> args[3]]
    /\ UNCHANGED <<top_down, hist, ref>>

HashGet ==
    /\ phase = "live"
    /\ \E k \in Keys :
          LET key == EncodeLE(k, ht.key_size)
          IN  \E r \in {hash_get_call(Machine, key)} :
              /\ Install(r.s)
              /\ ret' = [NoCall EXCEPT !.op = "get", !.key = k,
                                       !.ptr = r.ptr]
    /\ UNCHANGED <<top_down, phase, cfg, hist, ref>>

HashInsert ==
    /\ phase = "live"
    /\ \E k \in Keys, v \in Values, ok \in BOOLEAN :
          LET key   == EncodeLE(k, ht.key_size)
              value == EncodeLE(v, ht.value_size)
          IN  \E r \in {hash_insert(Machine, key, value, top_down, ok)} :
              /\ Install(r.s)
              /\ ret' = [NoCall EXCEPT !.op = "insert", !.key = k,
                                       !.value = v, !.rc = r.rc,
                                       !.created = (r.rc = 1)]
              /\ hist' = IF r.rc = 1
                         THEN Append(hist, [e |-> r.e, src |-> r.src,
                                            by |-> "insert", key |-> k,
                                            value |-> v, ptr |-> NULL])
                         ELSE hist
              /\ ref' = RefPut(k, v, r.rc = 0)
    /\ UNCHANGED <<top_down, phase, cfg>>

HashGetOrCreate ==
    /\ phase = "live"
    /\ \E k \in Keys, ok \in BOOLEAN :
          LET key == EncodeLE(k, ht.key_size)
          IN  \E r \in {hash_get_or_create(Machine, key, top_down, ok)} :
              /\ Install(r.s)
              /\ ret' = [NoCall EXCEPT !.op = "get_or_create", !.key = k,
                                       !.ptr = r.ptr,
                                       !.created = (r.e # NULL)]
              /\ hist' = IF r.e # NULL
                         THEN Append(hist, [e |-> r.e, src |-> r.src,
                                            by |-> "get_or_create",
                                            key |-> k, value |-> 0,
                                            ptr |-> r.ptr])
                         ELSE hist
              /\ ref' = RefPut(k, 0, r.ptr = NULL)
    /\ UNCHANGED <<top_down, phase, cfg>>

\* hash_free on a live table, and hash_free called once more right after.
HashFree ==
    /\ phase \in {"live", "freed"}
    /\ \E s \in {hash_free(Machine)} : Install(s)
    /\ phase' = IF phase = "live" THEN "freed" ELSE "refreed"
    /\ ret' = [NoCall EXCEPT !.op = "free"]
    /\ UNCHANGED <<top_down, cfg, hist, ref>>

\* hash_free on the structure a failed hash_init left behind: one the caller
\* had zeroed and hash_init did not fill, or one hash_init filled before its
\* arena allocation failed. In the second case ht->buckets points to the
\* array hash_init released, and the read of ht->buckets[0] has no defined
\* result: either the read is trapped and hash_free never returns, or (zeros)
\* it yields the zeros calloc had stored there and hash_free runs to its end.
HashFreeAfterFailedInit ==
    /\ phase = "failed"
    /\ ht = ZeroTable \/ (ht.buckets # NULL /\ ht # StaleTable)
    /\ \E zeros \in BOOLEAN :
          IF ht.buckets = NULL
          THEN /\ \E s \in {hash_free(Machine)} : Install(s)
               /\ phase' = "failed_freed"
               /\ ret' = [NoCall EXCEPT !.op = "free"]
          ELSE IF zeros
          THEN LET bsz == ht.nbuckets * SizeofPtr
                   s0  == [Machine EXCEPT
                             !.mem = FillBytes(@, ht.buckets, bsz, 0)]
               IN  /\ \E s \in {hash_free(s0)} :
                         Install([s EXCEPT
                                    !.mem = FillBytes(@, ht.buckets, bsz,
                                                      Indeterminate)])
                   /\ phase' = "failed_freed"
                   /\ ret' = [NoCall EXCEPT !.op = "free"]
          ELSE /\ Install(Load(Machine, ht.buckets))
               /\ phase' = "trapped"
               /\ ret' = [NoCall EXCEPT !.op = "free_trapped"]
    /\ UNCHANGED <<top_down, cfg, hist, ref>>

Next ==
    \/ HashInit
    \/ HashGet
    \/ HashInsert
    \/ HashGetOrCreate
    \/ HashFree
    \/ HashFreeAfterFailedInit

Spec == Init /\ [][Next]_vars

(* ------------------------- notions used by the claims ------------------ *)

\* The bytes the caller passes for key k and for value v.
KeyBytes(k) == EncodeLE(k, ht.key_size)
ValueBytes(v) == EncodeLE(v, ht.value_size)

\* The value_size bytes found at value-region address p.
ValueAt(p) == ReadBytes(mem, p, ht.value_size)

\* What a caller reads through hash_get(k) in machine state s: the bytes of
\* the value region, or <<>> when hash_get returns NULL.
LookupIn(s, k) ==
    LET p == hash_get(s, EncodeLE(k, s.ht.key_size))
    IN  IF p = NULL THEN <<>> ELSE ReadBytes(s.mem, p, s.ht.value_size)

Lookup(k) == LookupIn(Machine, k)

\* The machine state after the step.
MachineNext == [ht |-> ht', mem |-> mem', blocks |-> blocks', log |-> log']

\* The positions in hist of the entries created for key k.
Created(k) == {n \in DOMAIN hist : hist[n].key = k}

\* The table-owned part of the state: structure, memory, allocations, log.
table == <<ht, mem, blocks, log>>

IsFree(ev) == ev[1] = "free"
IsValueFree(ev) == ev[1] = "value_free"

\* How many events of sequence evs concern address p.
CountAt(evs, p) == Cardinality({i \in DOMAIN evs : evs[i][2] = p})

(* -------------------------------- C1 ----------------------------------- *)

\* C1: after hash_insert(k, v) has returned 1, hash_get(k) returns a value
\* region whose value_size bytes are the bytes of v, for arena-resident and
\* for heap-allocated entries alike.
C1_RoundTrip ==
    (ret.op = "insert" /\ ret.rc = 1) =>
        /\ hash_get(Machine, KeyBytes(ret.key)) # NULL
        /\ Lookup(ret.key) = ValueBytes(ret.value)

\* A successful insert whose entry came from the heap, into a table that
\* also holds an arena-resident entry.
C1_Witness ==
    /\ ret.op = "insert" /\ ret.rc = 1
    /\ Len(hist) >= 2
    /\ hist[1].src = "arena"
    /\ hist[Len(hist)].src = "heap"
    /\ hist[Len(hist)].key = ret.key

(* -------------------------------- C2 ----------------------------------- *)

\* C2: a hash_insert(k, v2) on a key that is already present (created by an
\* earlier hash_insert or hash_get_or_create) returns -1 and changes nothing:
\* structure, memory, allocations are as before, and hash_get(k) still
\* yields the value stored first.
C2_FirstWriteWins ==
    /\ [][(ret'.op = "insert" /\ Created(ret'.key) # {}) =>
              (ret'.rc = -1 /\ UNCHANGED <<table, hist>>)
        ]_vars
    /\ []((ret.op = "insert" /\ ret.rc = -1) =>
              /\ Created(ret.key) # {}
              /\ \A n \in Created(ret.key) :
                    Lookup(ret.key) = ValueBytes(hist[n].value))

\* A duplicate insert with a value different from the stored one.
C2_Witness ==
    /\ ret.op = "insert" /\ ret.rc = -1
    /\ \E n \in Created(ret.key) : hist[n].value # ret.value
    /\ Len(hist) >= 2

(* -------------------------------- C3 ----------------------------------- *)

\* C3: as long as entries have been created by hash_insert only, the live
\* count ht->size equals the number of hash_insert calls that returned 1.
C3_CountIsSuccessfulInserts ==
    (phase = "live" /\ \A n \in DOMAIN hist : hist[n].by = "insert") =>
        ht.size = Len(hist)

\* Two successful inserts, one into the arena and one into the heap, after
\* the second of which the count is checked.
C3_Witness ==
    /\ phase = "live"
    /\ Len(hist) = 2
    /\ \A n \in DOMAIN hist : hist[n].by = "insert"
    /\ hist[1].src # hist[2].src
    /\ ret.op = "insert" /\ ret.rc = 1

(* -------------------------------- C4 ----------------------------------- *)

\* C4: a hash_get_or_create(k) on a key that is already present returns the
\* value-region address the creating hash_get_or_create(k) returned (and the
\* address the immediately preceding hash_get_or_create(k) returned), and
\* changes nothing: no allocation (arena_used and the heap blocks are as
\* before), the live count and the value bytes are as before.
C4_GetOrCreateIdempotent ==
    [][\A k \in Keys :
          (ret'.op = "get_or_create" /\ ret'.key = k /\ Created(k) # {}) =>
              /\ ret'.ptr # NULL
              /\ UNCHANGED <<table, hist>>
              /\ \A n \in Created(k) :
                    hist[n].by = "get_or_create" => ret'.ptr = hist[n].ptr
              /\ (ret.op = "get_or_create" /\ ret.key = k) =>
                    ret'.ptr = ret.ptr
      ]_vars

\* A hash_get_or_create that found the entry an earlier hash_get_or_create
\* of the same key had created, in a table of two entries.
C4_Witness ==
    /\ ret.op = "get_or_create" /\ ~ret.created /\ ret.ptr # NULL
    /\ \E n \in Created(ret.key) :
          hist[n].by = "get_or_create" /\ hist[n].ptr = ret.ptr
    /\ Len(hist) >= 2

(* -------------------------------- C5 ----------------------------------- *)

\* C5: in a table initialised with expected_entries = E, the n-th entry
\* created comes from the arena if n <= E and from the heap if n > E (so from
\* the heap always when E = 0), and entry_is_in_arena reports that origin.
C5_AllocationSource ==
    phase = "live" =>
        \A n \in DOMAIN hist :
            /\ (hist[n].src = "arena") <=> (n <= cfg.expected_entries)
            /\ (hist[n].src = "heap") <=> (n > cfg.expected_entries)
            /\ entry_is_in_arena(ht, hist[n].e) <=> (hist[n].src = "arena")

\* One arena entry followed by one heap entry.
C5_Witness ==
    /\ phase = "live"
    /\ cfg.expected_entries = 1
    /\ Len(hist) = 2
    /\ hist[1].src = "arena" /\ hist[2].src = "heap"
    /\ entry_is_in_arena(ht, hist[1].e) /\ ~entry_is_in_arena(ht, hist[2].e)

(* -------------------------------- C6 ----------------------------------- *)

\* C6: hash_free calls a supplied value-destructor exactly once on the value
\* region of every entry created since hash_init, arena-resident or not, and
\* on nothing else; without a destructor it calls none.
C6_DestructorOncePerEntry ==
    phase = "freed" =>
        LET calls == SelectSeq(log, IsValueFree)
            vo    == compute_entry_value_offset(cfg.key_size)
        IN  IF cfg.value_free
            THEN /\ Len(calls) = Len(hist)
                 /\ \A n \in DOMAIN hist : CountAt(calls, hist[n].e + vo) = 1
            ELSE calls = <<>>

\* A table with a destructor, an arena entry and a heap entry, freed.
C6_Witness ==
    /\ phase = "freed"
    /\ cfg.value_free
    /\ \E n \in DOMAIN hist : hist[n].src = "arena"
    /\ \E n \in DOMAIN hist : hist[n].src = "heap"

(* -------------------------------- C7 ----------------------------------- *)

\* C7: hash_free releases every heap-fallback entry exactly once, no
\* arena-resident entry on its own, the arena block (if any) once and the
\* bucket array once, these two last; afterwards nothing the table had
\* allocated is still allocated.
C7_OriginAwareRelease ==
    [][(phase = "live" /\ phase' = "freed") =>
          LET frees  == SelectSeq(SubSeq(log', Len(log) + 1, Len(log')), IsFree)
              heapE  == {hist[n].e : n \in {i \in DOMAIN hist : hist[i].src = "heap"}}
              arenaE == {hist[n].e : n \in {i \in DOMAIN hist : hist[i].src = "arena"}}
              nblock == IF ht.arena # NULL THEN 1 ELSE 0
          IN  /\ \A a \in heapE : CountAt(frees, a) = 1
              /\ \A a \in arenaE \ {ht.arena} : CountAt(frees, a) = 0
              /\ Len(frees) = Cardinality(heapE) + nblock + 1
              /\ frees[Len(frees)] = <<"free", ht.buckets>>
              /\ ht.arena # NULL =>
                    frees[Len(frees) - 1] = <<"free", ht.arena>>
              /\ blocks' = {}
      ]_vars

\* A freed table that had held an arena entry and a heap entry.
C7_Witness ==
    /\ phase = "freed"
    /\ blocks = {}
    /\ Len(hist) >= 2
    /\ hist[1].src = "arena"
    /\ hist[Len(hist)].src = "heap"
    /\ CountAt(SelectSeq(log, IsFree), hist[Len(hist)].e) = 1

(* -------------------------------- C8 ----------------------------------- *)

\* C8: a hash_insert that returns 0 or a hash_get_or_create that returns
\* NULL leaves the table as it was: structure (live count, arena_used),
\* memory (chains, entries) and allocations are unchanged, and every key
\* stored before still resolves to its value.
C8_FailedAllocationLeavesTable ==
    [][(\/ ret'.op = "insert" /\ ret'.rc = 0
        \/ ret'.op = "get_or_create" /\ ret'.ptr = NULL) =>
          /\ UNCHANGED <<table, hist>>
          /\ \A k \in DOMAIN ref :
                LookupIn(MachineNext, k) = ValueBytes(ref[k])
      ]_vars

\* A hash_get_or_create that failed on a table with an exhausted arena.
C8_Witness ==
    /\ ret.op = "get_or_create" /\ ret.ptr = NULL
    /\ phase = "live"
    /\ ht.arena # NULL /\ ht.arena_used = ht.arena_capacity
    /\ Len(hist) >= 1

(* -------------------------------- C9 ----------------------------------- *)

\* C9: a hash_init that returns 0 leaves nothing allocated: either nothing
\* was acquired (nbuckets < 1, or the bucket array could not be allocated),
\* or the arena could not be allocated and the bucket array was released.
C9_FailedInitReleasesAll ==
    (ret.op = "init" /\ ret.rc = 0) =>
        /\ blocks = {}
        /\ \/ log = <<>>
           \/ /\ cfg.expected_entries > 0
              /\ ht.buckets # NULL
              /\ log = << <<"free", ht.buckets>> >>

\* The arena allocation failed after the bucket array had been allocated.
C9_Witness ==
    /\ ret.op = "init" /\ ret.rc = 0
    /\ cfg.expected_entries > 0
    /\ Len(log) = 1

(* -------------------------------- C10 ---------------------------------- *)

\* C10: the results of hash_insert, hash_get_or_create and hash_get are those
\* of a reference first-write-wins map, for every bucket count and every
\* expected_entries: hash_insert returns -1 exactly on a present key, hash_get
\* returns NULL exactly on a key never created, and what is read through a
\* returned address is the value the reference map holds.
C10_RefinesReferenceMap ==
    /\ [](phase = "live" =>
              /\ \A k \in Keys :
                    Lookup(k) = IF k \in DOMAIN ref
                                THEN ValueBytes(ref[k]) ELSE <<>>
              /\ (ret.op \in {"get", "get_or_create"} /\ ret.ptr # NULL) =>
                    /\ ret.key \in DOMAIN ref
                    /\ ValueAt(ret.ptr) = ValueBytes(ref[ret.key])
              /\ (ret.op = "insert" /\ ret.rc = 1) =>
                    /\ ret.key \in DOMAIN ref
                    /\ ref[ret.key] = ret.value)
    /\ [][phase' = "live" =>
              /\ ret'.op = "insert" =>
                    ((ret'.rc = -1) <=> (ret'.key \in DOMAIN ref))
              /\ ret'.op = "get" =>
                    ((ret'.ptr = NULL) <=> (ret'.key \notin DOMAIN ref))
        ]_vars

\* With one bucket, a hash_get of the key created first, which is behind
\* the key created second in the only chain.
C10_Witness ==
    /\ phase = "live"
    /\ ht.nbuckets = 1
    /\ Len(hist) = 2
    /\ hist[1].src # hist[2].src
    /\ ret.op = "get" /\ ret.key = hist[1].key /\ ret.ptr # NULL

(* -------------------------------- C11 ---------------------------------- *)

\* C11: hash_get never mutates the table: across a hash_get(k) step, for k
\* present or absent, the structure (bucket array pointer, live count, arena,
\* arena_capacity, arena_used), memory (bucket slots, chains, stored keys and
\* values), the allocations and the log are what they were before the call.
C11_GetNeverMutates ==
    [][ret'.op = "get" =>
          /\ ht' = ht
          /\ mem' = mem
          /\ blocks' = blocks
          /\ log' = log
          /\ hist' = hist
      ]_vars

\* A hash_get of an absent key on a table that holds an entry and has an
\* arena slot left.
C11_Witness ==
    /\ phase = "live"
    /\ ret.op = "get" /\ ret.ptr = NULL
    /\ Len(hist) = 1
    /\ ht.arena # NULL /\ ht.arena_used < ht.arena_capacity

(* -------------------------------- C12 ---------------------------------- *)

\* The last call was a hash_insert that returned 0 or a hash_get_or_create
\* that returned NULL.
AllocationFailed(r) ==
    \/ r.op = "insert" /\ r.rc = 0
    \/ r.op = "get_or_create" /\ r.ptr = NULL

\* C12: the arena never fails. While arena slots remain (arena_used <
\* arena_capacity), a hash_insert or hash_get_or_create of an absent key
\* creates its entry, in the arena and without touching the heap, whether or
\* not the heap could supply memory; a failure is reported only by a call
\* that found the arena exhausted or absent.
C12_ArenaNeverFails ==
    [][/\ (/\ phase = "live"
            /\ ht.arena # NULL /\ ht.arena_used < ht.arena_capacity
            /\ ret'.op \in {"insert", "get_or_create"}
            /\ Created(ret'.key) = {}) =>
               /\ ret'.created
               /\ ~AllocationFailed(ret')
               /\ hist'[Len(hist')].src = "arena"
               /\ ht'.arena_used = ht.arena_used + 1
               /\ blocks' = blocks
       /\ (phase = "live" /\ AllocationFailed(ret')) =>
               (ht.arena = NULL \/ ht.arena_used >= ht.arena_capacity)
      ]_vars

\* An entry created in the arena of a table whose heap has no room left for
\* an entry: every heap allocation fails.
C12_Witness ==
    /\ phase = "live"
    /\ ret.created
    /\ hist[Len(hist)].src = "arena"
    /\ FreeAddrs(blocks, ht.entry_size) = {}

(* -------------------------------- C13 ---------------------------------- *)

\* C13: a hash_init called with nbuckets < 1 returns 0, allocates nothing
\* and releases nothing, and leaves the structure passed in (initialised or
\* not) and memory exactly as they were.
C13_ZeroBucketsRejected ==
    [][(ret'.op = "init" /\ cfg'.nbuckets < 1) =>
          /\ ret'.rc = 0
          /\ phase' = "failed"
          /\ ht' = ht
          /\ mem' = mem
          /\ blocks' = blocks /\ blocks' = {}
          /\ log' = log /\ log' = <<>>
      ]_vars

\* hash_init called with nbuckets = 0 and an arena request on a structure
\* holding stale values.
C13_Witness ==
    /\ ret.op = "init" /\ ret.rc = 0
    /\ cfg.nbuckets = 0
    /\ cfg.expected_entries > 0
    /\ ht = StaleTable

(* -------------------------------- C14 ---------------------------------- *)

\* The sizes a caller may pass: any size_t, here the small ones and the ones
\* next to the largest.
LayoutSizes ==
    (0 .. MaxLayoutSize) \cup ((SizeMod - 1 - MaxLayoutSize) .. (SizeMod - 1))

LayoutInit ==
    /\ ht = ZeroTable
    /\ mem = [a \in Mem |-> Indeterminate]
    /\ blocks = {}
    /\ log = <<>>
    /\ top_down = FALSE
    /\ phase = "uninit"
    /\ ret = NoCall
    /\ \E ks \in LayoutSizes, vs \in LayoutSizes :
          cfg = [NoArgs EXCEPT !.key_size = ks, !.value_size = vs]
    /\ hist = <<>>
    /\ ref = <<>>

\* The layout fields as hash_init computes them from key_size and value_size.
ComputeLayout ==
    /\ phase = "uninit"
    /\ phase' = "layout"
    /\ ht' = [ht EXCEPT
                !.key_size = cfg.key_size,
                !.value_size = cfg.value_size,
                !.value_offset = compute_entry_value_offset(cfg.key_size),
                !.entry_size = compute_entry_size(cfg.key_size, cfg.value_size),
                !.arena_entry_stride =
                    compute_entry_stride(cfg.key_size, cfg.value_size)]
    /\ UNCHANGED <<mem, blocks, log, top_down, ret, cfg, hist, ref>>

LayoutNext == ComputeLayout

LayoutSpec == LayoutInit /\ [][LayoutNext]_vars

\* The least multiple of the maximum alignment that is >= x.
LeastAligned(x) ==
    ((x + HASH_ARENA_ALIGN - 1) \div HASH_ARENA_ALIGN) * HASH_ARENA_ALIGN

\* C14: for all key_size and value_size, value_offset is the least multiple
\* of the maximum alignment >= link_field_size + key_size, entry_size is
\* value_offset + value_size and stride is the least such multiple >=
\* entry_size; so the key region [link_field_size, link_field_size +
\* key_size) ends before the value region [value_offset, value_offset +
\* value_size) begins, and both lie inside one stride.
C14_EntryLayout ==
    phase = "layout" =>
        /\ ht.value_offset = LeastAligned(SizeofEntry + ht.key_size)
        /\ ht.entry_size = ht.value_offset + ht.value_size
        /\ ht.arena_entry_stride = LeastAligned(ht.entry_size)
        /\ SizeofEntry + ht.key_size <= ht.value_offset
        /\ ht.value_offset + ht.value_size <= ht.arena_entry_stride

\* The layout computed for a key_size so large that rounding up
\* link_field_size + key_size wraps size_t: the value region starts at
\* offset 0, on top of the link and the key.
C14_Witness ==
    /\ phase = "layout"
    /\ ht.key_size = SizeMod - 1 - SizeofEntry
    /\ ht.value_size = 8
    /\ ht.value_offset = 0
    /\ ht.entry_size = 8

(* -------------------------------- C15 ---------------------------------- *)

RECURSIVE chain_walk(_, _, _)
\* The entries met by for (e = head; e; e = e->next) in memory m, in order;
\* the walk is cut after fuel entries.
chain_walk(m, e, fuel) ==
    IF e = NULL \/ fuel = 0 THEN <<>>
    ELSE <<e>> \o chain_walk(m, ReadPtr(m, e), fuel - 1)

\* Memory has room for at most MaxChain entries (each holds a link).
MaxChain == MemSize \div SizeofEntry

\* The chain of bucket i. No chain of distinct entries is longer than
\* MaxChain, so a walk that is cut has met an entry twice.
Chain(i) ==
    chain_walk(mem, ReadPtr(mem, ht.buckets + i * SizeofPtr), MaxChain + 1)

RECURSIVE WalkAll(_)
\* The entries met by walking the chains of buckets i, i+1, ..., in order.
WalkAll(i) == IF i >= ht.nbuckets THEN <<>> ELSE Chain(i) \o WalkAll(i + 1)

\* C15: between a successful hash_init and hash_free, the live count
\* ht->size is the number of entries met by walking every bucket's chain,
\* after any sequence of hash_insert, hash_get_or_create and hash_get calls,
\* whatever they returned.
C15_CountIsReachableEntries ==
    phase = "live" => ht.size = Len(WalkAll(0))

\* A table whose single chain holds an entry created by hash_insert and one
\* created by hash_get_or_create, one in the arena and one on the heap,
\* after a duplicate insert.
C15_Witness ==
    /\ phase = "live"
    /\ ht.nbuckets = 1
    /\ Len(hist) = 2
    /\ hist[1].by # hist[2].by
    /\ hist[1].src # hist[2].src
    /\ ret.op = "insert" /\ ret.rc = -1
    /\ Len(Chain(0)) = 2

(* -------------------------------- C16 ---------------------------------- *)

\* Event x reads or hands out memory: a read of a stored pointer, or a
\* value-destructor call on a value region.
IsAccess(x) == x[1] \in {"load", "value_free"}

\* Access x falls inside block b.
Touches(x, b) == IsAccess(x) /\ x[2] >= b[1] /\ x[2] < b[1] + b[2]

\* C16: within hash_free, the successor link of every entry is read, and its
\* value-destructor (if supplied) is called, before the entry's memory is
\* released; the arena block and the bucket array are released after every
\* read and every destructor call; and nothing released is read or handed
\* to the destructor afterwards.
C16_TeardownOrdering ==
    [][(phase = "live" /\ phase' = "freed") =>
          LET ev == SubSeq(log', Len(log) + 1, Len(log'))
              vo == ht.value_offset
          IN  /\ \A i \in DOMAIN ev, j \in DOMAIN ev :
                    (i < j /\ IsFree(ev[i])) =>
                        \A b \in blocks :
                            b[1] = ev[i][2] => ~Touches(ev[j], b)
              /\ \A n \in DOMAIN hist :
                    \E i \in DOMAIN ev :
                        /\ ev[i] = <<"load", hist[n].e>>
                        /\ ht.value_free =>
                              ev[i + 1] = <<"value_free", hist[n].e + vo>>
                        /\ hist[n].src = "heap" =>
                              \E j \in DOMAIN ev :
                                  /\ ev[j] = <<"free", hist[n].e>>
                                  /\ j = i + (IF ht.value_free THEN 2 ELSE 1)
              /\ \A i \in DOMAIN ev, j \in DOMAIN ev :
                    (/\ IsFree(ev[i])
                     /\ ev[i][2] \in {ht.arena, ht.buckets}
                     /\ IsAccess(ev[j])) => j < i
      ]_vars

\* A freed table with a destructor whose single chain held two entries, the
\* head of them on the heap: the walk went on after releasing the head.
C16_Witness ==
    /\ phase = "freed"
    /\ cfg.value_free
    /\ cfg.nbuckets = 1
    /\ Len(hist) = 2
    /\ hist[2].src = "heap"
    /\ \E i \in DOMAIN log, j \in DOMAIN log :
          /\ i < j
          /\ log[i] = <<"free", hist[2].e>>
          /\ log[j] = <<"load", hist[1].e>>

(* -------------------------------- C17 ---------------------------------- *)

\* C17: after a hash_get_or_create(k) that found k absent and created an
\* entry, that entry (one more than before: the live count and the number of
\* chained entries are the number of entries created so far) holds the bytes
\* of k in its key region and value_size zero bytes in its value region,
\* whether it lies in the arena or on the heap; it is the head of bucket
\* hash(k) mod nbuckets; and the call returned its value region.
C17_GetOrCreateCreates ==
    (phase = "live" /\ ret.op = "get_or_create" /\ ret.created) =>
        LET e    == hist[Len(hist)].e
            slot == ht.buckets
                      + (hash(KeyBytes(ret.key)) % ht.nbuckets) * SizeofPtr
        IN  /\ hist[Len(hist)].key = ret.key
            /\ Cardinality(Created(ret.key)) = 1
            /\ ReadBytes(mem, entry_key(e), ht.key_size) = KeyBytes(ret.key)
            /\ ValueAt(entry_value(ht, e)) = [j \in 1 .. ht.value_size |-> 0]
            /\ ret.ptr = entry_value(ht, e)
            /\ ReadPtr(mem, slot) = e
            /\ ht.size = Len(hist)
            /\ Len(WalkAll(0)) = Len(hist)

\* A hash_get_or_create that created a heap entry in the bucket that
\* already held an arena entry.
C17_Witness ==
    /\ phase = "live"
    /\ ret.op = "get_or_create" /\ ret.created
    /\ ht.nbuckets = 1
    /\ Len(hist) = 2
    /\ hist[1].src = "arena" /\ hist[2].src = "heap"

(* -------------------------------- C18 ---------------------------------- *)

\* The sequence s back to front.
Reverse(s) == [j \in 1 .. Len(s) |-> s[Len(s) + 1 - j]]

\* The entries created so far whose key selects bucket i, in creation order.
CreatedIn(i) ==
    LET sel == SelectSeq(hist,
                  LAMBDA h : hash(KeyBytes(h.key)) % ht.nbuckets = i)
    IN  [j \in 1 .. Len(sel) |-> sel[j].e]

\* C18: push-front. Every bucket's chain is the sequence of the entries
\* created for that bucket, most recent first: a successful hash_insert or a
\* creating hash_get_or_create puts the new entry at the head of its chain
\* with the previous head as its successor, and leaves every other chain as
\* it was.
C18_PushFront ==
    phase = "live" =>
        /\ \A i \in 0 .. (ht.nbuckets - 1) : Chain(i) = Reverse(CreatedIn(i))
        /\ ret.created =>
              LET e == hist[Len(hist)].e
                  i == hash(KeyBytes(ret.key)) % ht.nbuckets
              IN  /\ Chain(i)[1] = e
                  /\ ReadPtr(mem, e) =
                        IF Len(Chain(i)) > 1 THEN Chain(i)[2] ELSE NULL

\* A successful hash_insert into the chain that held the entry created
\* before, which is now the successor of the new head.
C18_Witness ==
    /\ phase = "live"
    /\ ret.op = "insert" /\ ret.created
    /\ ht.nbuckets = 1
    /\ Len(hist) = 2
    /\ Chain(0) = <<hist[2].e, hist[1].e>>

(* -------------------------------- C19 ---------------------------------- *)

\* C19: hash_free leaves the structure all zero (buckets, nbuckets, sizes,
\* function pointers, size, arena, arena_capacity, arena_used, stride), and a
\* hash_free repeated right away reads no chain, calls no destructor,
\* releases nothing and leaves the structure zero.
C19_FreeResetsTable ==
    [][/\ ret'.op = "free" => ht' = ZeroTable
       /\ (phase = "freed" /\ ret'.op = "free") =>
               /\ phase' = "refreed"
               /\ ht = ZeroTable
               /\ mem' = mem
               /\ blocks' = blocks
               /\ log' = log
      ]_vars

\* hash_free called twice on a table with a destructor that held an arena
\* entry and a heap entry.
C19_Witness ==
    /\ phase = "refreed"
    /\ ht = ZeroTable
    /\ cfg.value_free
    /\ Len(hist) = 2
    /\ hist[1].src = "arena" /\ hist[2].src = "heap"

(* -------------------------------- C20 ---------------------------------- *)

\* No element occurs twice in sequence s.
NoDup(s) == Cardinality({s[j] : j \in DOMAIN s}) = Len(s)

\* C20: in every state of a table (live, or freed and empty) each bucket's
\* chain is a finite list that ends in NULL without meeting an entry twice,
\* no entry is in two chains or twice in one, and the chained entries are
\* the entries created; so every walk along next pointers terminates.
C20_ChainsAcyclic ==
    phase \in {"live", "freed", "refreed"} =>
        /\ \A i \in 0 .. (ht.nbuckets - 1) :
              /\ Len(Chain(i)) <= MaxChain
              /\ NoDup(Chain(i))
              /\ Chain(i) # <<>> =>
                    ReadPtr(mem, Chain(i)[Len(Chain(i))]) = NULL
        /\ NoDup(WalkAll(0))
        /\ phase = "live" =>
              {WalkAll(0)[j] : j \in DOMAIN WalkAll(0)}
                  = {hist[n].e : n \in DOMAIN hist}

\* After a lookup, a table of two buckets holding two arena entries, one in
\* each chain.
C20_Witness ==
    /\ phase = "live"
    /\ ret.op = "get"
    /\ ht.nbuckets = 2
    /\ Len(hist) = 2
    /\ hist[1].src = "arena" /\ hist[2].src = "arena"
    /\ Len(Chain(0)) = 1 /\ Len(Chain(1)) = 1

(* -------------------------------- C21 ---------------------------------- *)

\* The fields hash_init sets once: sizes, bucket array and count, the cached
\* layout and the arena block.
Configuration(h) ==
    <<h.key_size, h.value_size, h.nbuckets, h.buckets, h.value_offset,
      h.entry_size, h.arena_entry_stride, h.arena, h.arena_capacity,
      h.hash, h.equals, h.value_free>>

\* C21: after a successful hash_init, key_size, value_size, the bucket
\* count, the cached value_offset, entry_size and stride, and the arena base
\* and capacity are what hash_init computed from its arguments, and no
\* hash_get, hash_insert or hash_get_or_create step changes them; the step
\* that does is hash_free.
C21_ConfigurationFixed ==
    [][/\ (phase = "live" /\ ret'.op \in {"get", "insert", "get_or_create"})
            => Configuration(ht') = Configuration(ht)
       /\ phase' = "live" =>
            /\ ht'.key_size = cfg'.key_size
            /\ ht'.value_size = cfg'.value_size
            /\ ht'.nbuckets = cfg'.nbuckets
            /\ ht'.value_offset = compute_entry_value_offset(cfg'.key_size)
            /\ ht'.entry_size
                  = compute_entry_size(cfg'.key_size, cfg'.value_size)
            /\ ht'.arena_capacity = cfg'.expected_entries
            /\ ht'.arena_entry_stride
                  = IF cfg'.expected_entries > 0
                    THEN compute_entry_stride(cfg'.key_size, cfg'.value_size)
                    ELSE 0
       /\ (phase = "live" /\ Configuration(ht') # Configuration(ht))
            => ret'.op = "free"
      ]_vars

\* A hash_insert that fell back to the heap after the arena was used up,
\* with the configuration as hash_init left it.
C21_Witness ==
    /\ phase = "live"
    /\ ret.op = "insert" /\ ret.created
    /\ Len(hist) = 2
    /\ hist[2].src = "heap"
    /\ ht.arena # NULL /\ ht.arena_capacity = 1 /\ ht.arena_used = 1
    /\ ht.nbuckets = 2

(* -------------------------------- C22 ---------------------------------- *)

\* The n bytes at address a of memory m are all zero.
AllZero(m, a, n) == \A x \in a .. (a + n - 1) : m[x] = 0

\* C22: every entry the allocator hands out is all zero over entry_size
\* bytes when entry_alloc returns it, from the arena and from the heap.
\* The arena slots with index >= arena_used have not been written since
\* hash_init zeroed them, and no slot is handed out twice: the entries
\* created from the arena are the slots 0 .. arena_used - 1, in order.
C22_EntriesHandedOutZeroed ==
    phase = "live" =>
        /\ \A ok \in BOOLEAN :
              LET a == entry_alloc(Machine, top_down, ok)
              IN  a.e # NULL => AllZero(a.s.mem, a.e, ht.entry_size)
        /\ \A i \in ht.arena_used .. (ht.arena_capacity - 1) :
              AllZero(mem, ht.arena + i * ht.arena_entry_stride,
                      ht.arena_entry_stride)
        /\ \A n \in DOMAIN hist :
              hist[n].src = "arena" =>
                  /\ n <= ht.arena_used
                  /\ hist[n].e = ht.arena + (n - 1) * ht.arena_entry_stride

\* A table with one arena slot used and one left, and room on the heap:
\* the next entry comes zeroed from the arena, one after it from the heap.
C22_Witness ==
    /\ phase = "live"
    /\ ht.arena # NULL /\ ht.arena_used = 1 /\ ht.arena_capacity = 2
    /\ Len(hist) = 1
    /\ entry_alloc(Machine, top_down, TRUE).src = "arena"
    /\ entry_alloc(entry_alloc(Machine, top_down, TRUE).s, top_down, TRUE).src
          = "heap"

(* -------------------------------- C23 ---------------------------------- *)

\* hash_init with any expected_entries a caller may pass: a small one, or
\* one so large that stride * expected_entries exceeds the largest size_t.
ArenaHashInit ==
    /\ phase = "uninit"
    /\ \E args \in InitArgs, nbuckets \in 0 .. MaxBuckets,
          d \in 0 .. MaxExpected, large \in BOOLEAN,
          ok1 \in BOOLEAN, ok2 \in BOOLEAN :
          LET stride == compute_entry_stride(args[1], args[2])
              expected_entries ==
                  IF large THEN (SizeMod \div stride) + d ELSE d
          IN  \E r \in {hash_init(Machine, args[1], args[2], nbuckets,
                                 expected_entries, args[3], top_down,
                                 ok1, ok2)} :
              /\ Install(r.s)
              /\ phase' = IF r.rc = 1 THEN "live" ELSE "failed"
              /\ ret' = [NoCall EXCEPT !.op = "init", !.rc = r.rc]
              /\ cfg' = [key_size |-> args[1], value_size |-> args[2],
                         nbuckets |-> nbuckets,
                         expected_entries |-> expected_entries,
                         value_free |-> args[3]]
    /\ UNCHANGED <<top_down, hist, ref>>

\* entry_alloc as hash_insert and hash_get_or_create call it for a new key,
\* while arena slots remain.
ArenaAlloc ==
    /\ phase = "live"
    /\ ht.arena # NULL /\ ht.arena_used < ht.arena_capacity
    /\ Len(hist) < MaxSlots
    /\ \E ok \in BOOLEAN :
          \E r \in {entry_alloc(Machine, top_down, ok)} :
              /\ Install(r.s)
              /\ ret' = [NoCall EXCEPT !.op = "entry_alloc", !.ptr = r.e,
                                       !.created = TRUE]
              /\ hist' = Append(hist, [e |-> r.e, src |-> r.src,
                                       by |-> "entry_alloc", key |-> 0,
                                       value |-> 0, ptr |-> NULL])
    /\ UNCHANGED <<top_down, phase, cfg, ref>>

ArenaNext == ArenaHashInit \/ ArenaAlloc

ArenaSpec == Init /\ [][ArenaNext]_vars

\* The blocks malloc returned at address p (one, or none).
BlockAt(p) == {b \in blocks : b[1] = p}

\* C23: every arena slot handed out by entry_alloc lies wholly inside the
\* block hash_init allocated with malloc(stride * expected_entries), the
\* product taken in size_t arithmetic: slot n begins at or after the base
\* and ends, entry_size bytes later, at or before the end of the block; and
\* two slots handed out never overlap.
C23_SlotsInsideArena ==
    phase = "live" =>
        \A n \in DOMAIN hist :
            hist[n].src = "arena" =>
                /\ \E b \in BlockAt(ht.arena) :
                      /\ b[2] = (ht.arena_entry_stride * cfg.expected_entries)
                                   % SizeMod
                      /\ hist[n].e >= b[1]
                      /\ hist[n].e + ht.entry_size <= b[1] + b[2]
                /\ \A k \in DOMAIN hist :
                      (k # n /\ hist[k].src = "arena") =>
                          \/ hist[n].e + ht.entry_size <= hist[k].e
                          \/ hist[k].e + ht.entry_size <= hist[n].e

\* hash_init succeeded with a product that wrapped to one stride, and the
\* second slot handed out begins where the block ends.
C23_Witness ==
    /\ phase = "live"
    /\ ht.arena # NULL
    /\ cfg.expected_entries = (SizeMod \div ht.arena_entry_stride) + 1
    /\ ht.arena_capacity = cfg.expected_entries
    /\ BlockAt(ht.arena) = {<<ht.arena, ht.arena_entry_stride>>}
    /\ Len(hist) = 2
    /\ hist[2].src = "arena"
    /\ hist[2].e = ht.arena + ht.arena_entry_stride

Min(a, b) == IF a <= b THEN a ELSE b

\* C24: in every state between a successful hash_init and hash_free,
\* arena_used <= arena_capacity and arena_used is the smaller of
\* arena_capacity and the number of entries of the table: those linked in
\* the chains, which is ht->size, which is the number of calls that created
\* an entry. Calls that created none (a duplicate hash_insert, a hash_get, a
\* hash_get_or_create that found its key, a failed allocation) add nothing
\* to that number, so the equality after them says they consumed no slot.
C24_ArenaUsed ==
    phase = "live" =>
        /\ ht.arena_used <= ht.arena_capacity
        /\ ht.arena_used = Min(Len(WalkAll(0)), ht.arena_capacity)
        /\ ht.arena_used = Min(ht.size, ht.arena_capacity)
        /\ ht.arena_used = Min(Len(hist), ht.arena_capacity)
        /\ ht.arena_used = Cardinality({n \in DOMAIN hist :
                                           hist[n].src = "arena"})

\* A duplicate hash_insert has just returned -1 on a table whose arena has
\* two slots, one of them used by the one entry of the table.
C24_Witness ==
    /\ phase = "live"
    /\ ret.op = "insert" /\ ret.rc = -1
    /\ ht.arena # NULL
    /\ ht.arena_capacity = 2
    /\ ht.arena_used = 1
    /\ ht.size = 1
    /\ Len(hist) = 1

\* The key bytes stored in entry e.
KeyOf(e) == ReadBytes(mem, entry_key(e), ht.key_size)

\* C25: in every state between a successful hash_init and hash_free, every
\* entry linked in bucket i holds a key whose hash modulo nbuckets is i, and
\* no two entries linked in the table hold equal keys, whatever sequence of
\* hash_insert and hash_get_or_create calls led there.
C25_KeysUniqueAndPlaced ==
    phase = "live" =>
        /\ \A i \in 0 .. (ht.nbuckets - 1) :
              LET c == Chain(i)
              IN  \A j \in DOMAIN c : bucket_index(ht, KeyOf(c[j])) = i
        /\ LET all == WalkAll(0)
           IN  \A a, b \in DOMAIN all :
                   a # b => ~equals(KeyOf(all[a]), KeyOf(all[b]))

\* Two buckets; an entry created by hash_insert and one created by
\* hash_get_or_create are linked, and a hash_insert of a key already present
\* has just been refused.
C25_Witness ==
    /\ phase = "live"
    /\ ht.nbuckets = 2
    /\ Len(hist) = 2
    /\ hist[1].by = "insert"
    /\ hist[2].by = "get_or_create"
    /\ Len(WalkAll(0)) = 2
    /\ ret.op = "insert" /\ ret.rc = -1

\* Event x of the log reads a pointer stored in the n bytes at address p.
LoadsFrom(x, p, n) == x[1] = "load" /\ x[2] >= p /\ x[2] < p + n

\* C26: after hash_init has returned 0 the structure holds no pointer to
\* memory hash_init released, and a hash_free called on that structure
\* neither reads the released bucket array nor releases it a second time.
C26_FailedInitLeavesNoDangling ==
    /\ phase = "failed" =>
          \A i \in DOMAIN log :
              IsFree(log[i]) => log[i][2] \notin {ht.buckets, ht.arena}
    /\ phase \in {"failed_freed", "trapped"} =>
          \A i \in DOMAIN log, j \in DOMAIN log :
              (i < j /\ IsFree(log[i])) =>
                  /\ log[j] # log[i]
                  /\ ~LoadsFrom(log[j], log[i][2],
                                cfg.nbuckets * SizeofPtr)

\* hash_init failed at the arena allocation after it had allocated two
\* buckets, and the hash_free that followed ran to its end: it read both
\* buckets of the released array and released the array again.
C26_Witness ==
    /\ phase = "failed_freed"
    /\ cfg.nbuckets = 2 /\ cfg.expected_entries > 0
    /\ Len(log) = 4
    /\ IsFree(log[1])
    /\ log[2] = <<"load", log[1][2]>>
    /\ log[3] = <<"load", log[1][2] + SizeofPtr>>
    /\ log[4] = log[1]
    /\ ht = ZeroTable

\* C27: between a successful hash_init and hash_free, for every entry ever
\* created, whatever was inserted or created since: hash_get and
\* hash_get_or_create of its key return the address of the value region of
\* that very entry (the address hash_get_or_create returned when it created
\* the entry), whether the entry lies in the arena or on the heap; and so
\* did the call that has just returned.
C27_ValueAddressStable ==
    phase = "live" =>
        \A n \in DOMAIN hist :
            LET key  == KeyBytes(hist[n].key)
                addr == entry_value(ht, hist[n].e)
            IN  /\ hash_get_call(Machine, key).ptr = addr
                /\ \A ok \in BOOLEAN :
                      hash_get_or_create(Machine, key, top_down, ok).ptr = addr
                /\ hist[n].by = "get_or_create" => hist[n].ptr = addr
                /\ (ret.op \in {"get", "get_or_create"}
                        /\ ret.key = hist[n].key) => ret.ptr = addr

\* One bucket. The first entry was created in the arena by
\* hash_get_or_create, a second entry was then created on the heap and
\* became the head of the chain, and a hash_get of the first key has just
\* returned the address the creating call had returned.
C27_Witness ==
    /\ phase = "live"
    /\ ht.nbuckets = 1
    /\ Len(hist) = 2
    /\ hist[1].by = "get_or_create" /\ hist[1].src = "arena"
    /\ hist[2].src = "heap"
    /\ ret.op = "get" /\ ret.key = hist[1].key
    /\ ret.ptr = hist[1].ptr
    /\ ret.ptr # NULL

====
